---------------------------- MODULE Spec2Model ----------------------------
(***************************************************************************)
(* A model of speedy-psarc (src/index.ts): the PSARC container decoder.    *)
(*                                                                         *)
(* Buffers are sequences of bytes (0..255).  The source indexes buffers    *)
(* and arrays from 0; the model keeps the source's 0-based numbers in      *)
(* every value (cursor index, descriptor offset, listing position) and     *)
(* converts only where a sequence is accessed (At, Slice).                 *)
(*                                                                         *)
(* JavaScript numbers are doubles, exact below 2^53, so the 2-, 4- and     *)
(* 5-byte reads of the source never wrap.  TLC integers are 32 bit, hence  *)
(* the inputs drawn below keep every decoded number below 2^31.            *)
(***************************************************************************)
EXTENDS Integers, Sequences, FiniteSets, TLC

VARIABLES
    pc,          \* position of the modelled run
    err,         \* the value thrown by the last operation, or NoError
    buffer,      \* FileReader.buffer: the archive bytes
    index,       \* FileReader.index: the cursor
    version,     \* PSARC.version
    toc,         \* PSARC.toc
    blocks,      \* PSARC.blocks: the block descriptors
    blockSizes,  \* PSARC.blockSizes: the chunk-size table
    files,       \* PSARC.files: the listing
    scan,        \* readTOC's locals: the decrypted buffer and its reader
    ret,         \* the value returned by the last operation
    doc,         \* the text of a song manifest handed to getPathName
    input,       \* history: an argument as it was before it was changed in place
    pathNames,   \* a list of PathName records
    manifest     \* the parsed master manifest handed to addPathsToManifest

vars == <<pc, err, buffer, index, version, toc, blocks, blockSizes, files,
          scan, ret, doc, input, pathNames, manifest>>

---------------------------------------------------------------------------
(* Values shared by all parts of the model.                                *)

BLOCK_SIZE == 65536

\* A field of a JavaScript object that was never assigned.
Undefined == -1

NoError == "none"

Min(a, b) == IF a < b THEN a ELSE b

Max(a, b) == IF a > b THEN a ELSE b

\* 'PSAR' and 'zlib' as UTF-8 bytes.
PSAR == <<80, 83, 65, 82>>

ZLIB == <<122, 108, 105, 98>>

---------------------------------------------------------------------------
(* FileReader                                                              *)

\* Buffer.slice(start, end): both ends are clamped to the buffer, and an
\* empty range gives an empty buffer.
Slice(buf, start, end) ==
    LET s == Min(Max(start, 0), Len(buf))
        e == Min(Max(end, 0), Len(buf))
    IN  IF e <= s THEN <<>> ELSE SubSeq(buf, s + 1, e)

\* readString: the text is kept as its bytes.  Decoding UTF-8 yields the
\* literal 'PSAR' (or 'zlib') exactly for those four ASCII bytes, which is
\* the only use the source makes of the decoded text.  readString never
\* throws: past the end it returns a shorter string and still advances.
ReadString(buf, idx, length) ==
    [str |-> Slice(buf, idx, idx + length), index |-> idx + length]

RECURSIVE Pow(_, _)
Pow(b, e) == IF e = 0 THEN 1 ELSE b * Pow(b, e - 1)

\* The accumulation loop of readNumber.  A zero byte adds nothing; the
\* power is not evaluated for it, which keeps 5-byte numbers with zero
\* leading bytes inside TLC's integers.
RECURSIVE NumberFrom(_, _, _, _)
NumberFrom(buf, idx, length, i) ==
    IF i >= length THEN 0
    ELSE (IF buf[idx + i + 1] = 0 THEN 0
          ELSE buf[idx + i + 1] * Pow(256, length - i - 1))
         + NumberFrom(buf, idx, length, i + 1)

ReadNumber(buf, idx, length) ==
    IF idx > Len(buf) - length
    THEN [eof |-> TRUE, number |-> Undefined, index |-> idx]
    ELSE [eof |-> FALSE, number |-> NumberFrom(buf, idx, length, 0),
          index |-> idx + length]

ReadShort(buf, idx) == ReadNumber(buf, idx, 2)

ReadInt(buf, idx) == ReadNumber(buf, idx, 4)

---------------------------------------------------------------------------
(* PSARC.readHeader                                                        *)

EmptyTOC == [length |-> Undefined, entrySize |-> Undefined,
             numEntries |-> Undefined]

NoVersion == [major |-> Undefined, minor |-> Undefined]

HeaderOutcome(e, i, v, t) == [err |-> e, index |-> i, version |-> v, toc |-> t]

\* HeaderFlags without the check of the archive flags.
HeaderFlagsUnchecked(buf, v, t, i) ==
    LET bs == ReadInt(buf, i) IN
    IF bs.eof THEN HeaderOutcome("eof", bs.index, v, t)
    ELSE IF bs.number # BLOCK_SIZE
    THEN HeaderOutcome("block size does not equal 65536", bs.index, v, t)
    ELSE LET fl == ReadInt(buf, bs.index) IN
    IF fl.eof THEN HeaderOutcome("eof", fl.index, v, t)
    ELSE HeaderOutcome(NoError, fl.index, v, t)

\* The reads and checks of readHeader, in the order of the source.  Each
\* field of toc is assigned as soon as its read returns; version is
\* assigned only when both of its reads returned.
HeaderFlags(buf, v, t, i) ==
    LET bs == ReadInt(buf, i) IN
    IF bs.eof THEN HeaderOutcome("eof", bs.index, v, t)
    ELSE IF bs.number # BLOCK_SIZE
    THEN HeaderOutcome("block size does not equal 65536", bs.index, v, t)
    ELSE LET fl == ReadInt(buf, bs.index) IN
    IF fl.eof THEN HeaderOutcome("eof", fl.index, v, t)
    ELSE IF fl.number # 4
    THEN HeaderOutcome("archive flags do not equal 4", fl.index, v, t)
    ELSE HeaderOutcome(NoError, fl.index, v, t)

HeaderTOC(buf, v, i) ==
    LET len == ReadInt(buf, i) IN
    IF len.eof THEN HeaderOutcome("eof", len.index, v, EmptyTOC)
    ELSE LET t1 == [EmptyTOC EXCEPT !.length = len.number]
             es == ReadInt(buf, len.index) IN
    IF es.eof THEN HeaderOutcome("eof", es.index, v, t1)
    ELSE LET t2 == [t1 EXCEPT !.entrySize = es.number]
             ne == ReadInt(buf, es.index) IN
    IF ne.eof THEN HeaderOutcome("eof", ne.index, v, t2)
    ELSE HeaderFlags(buf, v, [t2 EXCEPT !.numEntries = ne.number], ne.index)

readHeader(buf) ==
    LET magic == ReadString(buf, 0, 4) IN
    IF magic.str # PSAR
    THEN HeaderOutcome("magic does not equal PSAR", magic.index,
                       NoVersion, EmptyTOC)
    ELSE LET major == ReadShort(buf, magic.index) IN
    IF major.eof THEN HeaderOutcome("eof", major.index, NoVersion, EmptyTOC)
    ELSE LET minor == ReadShort(buf, major.index) IN
    IF minor.eof THEN HeaderOutcome("eof", minor.index, NoVersion, EmptyTOC)
    ELSE LET v == [major |-> major.number, minor |-> minor.number]
             tag == ReadString(buf, minor.index, 4) IN
    IF tag.str # ZLIB
    THEN HeaderOutcome("compression type does not equal zlib", tag.index,
                       v, EmptyTOC)
    ELSE HeaderTOC(buf, v, tag.index)

\* The constructor's first call, on a newly constructed reader.
ReadHeader ==
    /\ pc = "new"
    /\ LET h == readHeader(buffer) IN
        /\ index' = h.index
        /\ version' = h.version
        /\ toc' = h.toc
        /\ err' = h.err
        /\ pc' = IF h.err = NoError THEN "header" ELSE "headerFailed"
    /\ UNCHANGED <<buffer, blocks, blockSizes, files, scan, ret, doc, input,
                   pathNames, manifest>>

---------------------------------------------------------------------------
(* PSARC.addPadding, PSARC.decryptTOC                                      *)

KEY == <<197, 61, 178, 56, 112, 161, 162, 247, 28, 174, 100, 6, 31, 221, 14, 17,
         87, 48, 157, 200, 82, 4, 212, 197, 191, 223, 37, 9, 13, 242, 87, 44>>

IV == <<233, 21, 170, 1, 143, 239, 113, 252, 80, 129, 50, 228, 187, 76, 235, 66>>

Zeros(n) == [i \in 1..n |-> 0]

\* Buffer.concat([buffer], totalLength) zero-fills up to totalLength.
addPadding(buf) ==
    IF Len(buf) % 16 # 0
    THEN buf \o Zeros(16 - (Len(buf) % 16))
    ELSE buf

RECURSIVE XorByte(_, _)
XorByte(a, b) ==
    IF a = 0 THEN b
    ELSE IF b = 0 THEN a
    ELSE (((a % 2) + (b % 2)) % 2) + 2 * XorByte(a \div 2, b \div 2)

\* The block cipher under the key.  AES itself belongs to the aes-js
\* library; the model puts a keyed byte-mixing function in its place, which
\* keeps what CFB relies on: a deterministic map of 16 bytes to 16 bytes.
BlockCipher(block) ==
    [j \in 1..16 |-> (block[j] + block[(j % 16) + 1] + KEY[j] + KEY[j + 16]) % 256]

\* aesjs.ModeOfOperation.cfb(KEY, IV, 16).decrypt: segment by segment, the
\* plaintext is the ciphertext xor the enciphered shift register, and the
\* register becomes the ciphertext segment.  The length is kept.
RECURSIVE CfbDecrypt(_, _)
CfbDecrypt(cipher, register) ==
    IF Len(cipher) = 0 THEN <<>>
    ELSE LET pad == BlockCipher(register)
             seg == SubSeq(cipher, 1, 16)
         IN  [j \in 1..16 |-> XorByte(seg[j], pad[j])]
               \o CfbDecrypt(SubSeq(cipher, 17, Len(cipher)), seg)

decryptTOC(tocEncrypted, tocLength) ==
    Slice(CfbDecrypt(addPadding(tocEncrypted), IV), 0, tocLength)

---------------------------------------------------------------------------
(* PSARC.readTOC                                                           *)

\* The descriptor loop.  A descriptor is pushed when all four of its reads
\* returned; readString never fails, the three numeric reads throw 'eof'.
RECURSIVE ReadDescriptors(_, _, _, _, _)
ReadDescriptors(buf, idx, i, numEntries, acc) ==
    IF i >= numEntries THEN [eof |-> FALSE, index |-> idx, blocks |-> acc]
    ELSE LET name == ReadString(buf, idx, 16)
             offset == ReadInt(buf, name.index)
         IN
    IF offset.eof THEN [eof |-> TRUE, index |-> offset.index, blocks |-> acc]
    ELSE LET size == ReadNumber(buf, offset.index, 5) IN
    IF size.eof THEN [eof |-> TRUE, index |-> size.index, blocks |-> acc]
    ELSE LET fileOffset == ReadNumber(buf, size.index, 5) IN
    IF fileOffset.eof
    THEN [eof |-> TRUE, index |-> fileOffset.index, blocks |-> acc]
    ELSE ReadDescriptors(buf, fileOffset.index, i + 1, numEntries,
             Append(acc, [name |-> name.str, offset |-> offset.number,
                          size |-> size.number,
                          fileOffset |-> fileOffset.number]))

\* ScanSizes storing every value as read, an encoded 0 included.
RECURSIVE ScanSizesRaw(_, _, _)
ScanSizesRaw(buf, idx, acc) ==
    LET val == ReadShort(buf, idx) IN
    IF val.eof THEN [index |-> val.index, blockSizes |-> acc]
    ELSE ScanSizesRaw(buf, val.index, Append(acc, val.number))

\* The chunk-size scan: 'eof' from readShort ends the loop and is caught.
RECURSIVE ScanSizes(_, _, _)
ScanSizes(buf, idx, acc) ==
    LET val == ReadShort(buf, idx) IN
    IF val.eof THEN [index |-> val.index, blockSizes |-> acc]
    ELSE ScanSizes(buf, val.index,
             Append(acc, IF val.number = 0 THEN BLOCK_SIZE ELSE val.number))

readTOC(buf, idx, t, oldBlocks, oldSizes) ==
    LET tocEncrypted == Slice(buf, idx, idx + t.length - 32)
        plain == decryptTOC(tocEncrypted, t.length)
        d == ReadDescriptors(plain, 0, 0, t.numEntries, oldBlocks)
        s == ScanSizes(plain, d.index, oldSizes)
    IN  IF d.eof
        THEN [err |-> "eof", blocks |-> d.blocks, blockSizes |-> oldSizes,
              scan |-> [plain |-> plain, encLen |-> Len(tocEncrypted),
                        scanStart |-> Undefined, readerIndex |-> d.index]]
        ELSE [err |-> NoError, blocks |-> d.blocks, blockSizes |-> s.blockSizes,
              scan |-> [plain |-> plain, encLen |-> Len(tocEncrypted),
                        scanStart |-> d.index, readerIndex |-> s.index]]

\* The constructor's second call.
ReadTOC ==
    /\ pc = "header"
    /\ LET r == readTOC(buffer, index, toc, blocks, blockSizes) IN
        /\ blocks' = r.blocks
        /\ blockSizes' = r.blockSizes
        /\ scan' = r.scan
        /\ err' = r.err
        /\ pc' = IF r.err = NoError THEN "toc" ELSE "tocFailed"
    /\ UNCHANGED <<buffer, index, version, toc, files, ret, doc, input,
                   pathNames, manifest>>

---------------------------------------------------------------------------
(* PSARC.readBlock                                                         *)

\* An element of a JavaScript array by its 0-based index.
Has(arr, i) == i >= 0 /\ i < Len(arr)

At(arr, i) == arr[i + 1]

\* zlib's unzipSync.  DEFLATE belongs to zlib; the model puts a run-length
\* code in its place: the three bytes <<120, n, b>> inflate to n bytes b,
\* and unzipSync throws on any other section.  Like DEFLATE, the code can
\* inflate to more bytes than the section has, to fewer, or to none.
Inflates(section) == Len(section) = 3 /\ section[1] = 120

unzipSync(section) == [i \in 1..section[2] |-> section[3]]

\* try { unzipSync(section) } catch { section }
SectionUnzipped(section) ==
    IF Inflates(section) THEN unzipSync(section) ELSE section

\* The loop of readBlock from chunk i on, with the bytes gathered so far
\* and the physical read offset.  Running out of chunks ends the loop and
\* what was gathered is returned.
RECURSIVE BlockLoop(_, _, _, _, _, _)
BlockLoop(buf, sizes, block, i, offset, gathered) ==
    IF ~(i < Len(sizes)) THEN [err |-> NoError, data |-> gathered]
    ELSE LET section == Slice(buf, offset, offset + At(sizes, i))
             data == gathered \o SectionUnzipped(section)
         IN  IF Len(data) = block.size THEN [err |-> NoError, data |-> data]
             ELSE IF Len(data) > block.size THEN [err |-> "", data |-> <<>>]
             ELSE BlockLoop(buf, sizes, block, i + 1,
                            offset + At(sizes, i), data)

\* readBlock(this.blocks[n]): an index outside the array yields undefined,
\* and reading block.fileOffset then throws a TypeError.
readBlock(buf, sizes, descriptors, n) ==
    IF ~Has(descriptors, n) THEN [err |-> "TypeError", data |-> <<>>]
    ELSE LET block == At(descriptors, n)
         IN  BlockLoop(buf, sizes, block, block.offset, block.fileOffset, <<>>)

\* A call of readBlock on one of the archive's descriptors.
ReadBlock ==
    /\ pc = "open"
    /\ \E n \in 0..(Len(blocks) - 1) :
         ret' = [block |-> n] @@ readBlock(buffer, blockSizes, blocks, n)
    /\ pc' = "read"
    /\ UNCHANGED <<err, buffer, index, version, toc, blocks, blockSizes,
                   files, scan, doc, input, pathNames, manifest>>

---------------------------------------------------------------------------
(* The listing and the lookups in it                                       *)

\* manifest.toString('utf-8').split('\n'): the pieces between newline
\* bytes; an empty text gives one empty path.  Paths are kept as bytes.
RECURSIVE SplitFrom(_, _, _)
SplitFrom(text, i, piece) ==
    IF i > Len(text) THEN <<piece>>
    ELSE IF text[i] = 10 THEN <<piece>> \o SplitFrom(text, i + 1, <<>>)
    ELSE SplitFrom(text, i + 1, Append(piece, text[i]))

Split(text) == SplitFrom(text, 1, <<>>)

\* 'manifests/', 'manifests/songs', 'hsan' and 'json' as bytes.
ManifestsDir == <<109, 97, 110, 105, 102, 101, 115, 116, 115, 47>>

SongsPrefix == <<109, 97, 110, 105, 102, 101, 115, 116, 115, 47, 115, 111, 110, 103, 115>>

Hsan == <<104, 115, 97, 110>>

Json == <<106, 115, 111, 110>>

\* The regular expressions' '.' matches any character but a line end.
NoLineEnd(text) == \A i \in 1..Len(text) : text[i] \notin {10, 13}

\* /^prefix.*.suffix$/: the prefix, then at least one character (the dot
\* before the suffix is not escaped and stands for any character), then the
\* suffix at the end of the path.
MatchesPattern(file, prefix, suffix) ==
    /\ Len(file) >= Len(prefix) + 1 + Len(suffix)
    /\ SubSeq(file, 1, Len(prefix)) = prefix
    /\ SubSeq(file, Len(file) - Len(suffix) + 1, Len(file)) = suffix
    /\ NoLineEnd(SubSeq(file, Len(prefix) + 1, Len(file) - Len(suffix)))

\* file.match(/^manifests\/.*.hsan$/)
MatchesHsan(file) == MatchesPattern(file, ManifestsDir, Hsan)

\* file.match(/^manifests\/songs.*.json$/)
MatchesSong(file) == MatchesPattern(file, SongsPrefix, Json)

\* Array.findIndex over the outcomes of the test: the 0-based position of
\* the first element that passes, -1 when none does.
RECURSIVE FirstTrueFrom(_, _)
FirstTrueFrom(tests, i) ==
    IF i >= Len(tests) THEN -1
    ELSE IF At(tests, i) THEN i
    ELSE FirstTrueFrom(tests, i + 1)

\* The descriptor index getManifest reads.
getManifestIndex(listing) ==
    FirstTrueFrom([i \in 1..Len(listing) |-> MatchesHsan(listing[i])], 0) + 1

\* The descriptor index getFirstSongManifest reads.
getFirstSongManifestIndex(listing) ==
    FirstTrueFrom([i \in 1..Len(listing) |-> MatchesSong(listing[i])], 0)

RECURSIVE PathManifestIndexesFrom(_, _)
PathManifestIndexesFrom(listing, i) ==
    IF i >= Len(listing) THEN <<>>
    ELSE (IF MatchesSong(At(listing, i)) THEN <<i + 1>> ELSE <<>>)
           \o PathManifestIndexesFrom(listing, i + 1)

getPathManifestIndexes(listing) == PathManifestIndexesFrom(listing, 0)

---------------------------------------------------------------------------
(* PSARC.getPathName                                                       *)

SyntaxError == [ok |-> FALSE, Entries |-> <<>>]

\* Names of entry keys, song keys and arrangements as the model writes
\* them in a manifest: one byte each.
KeyText(byte) == "k" \o ToString(byte)

SongKeyText(byte) == "SONG" \o ToString(byte)

ArrangementText(byte) ==
    CASE byte = 1 -> "Lead"
      [] byte = 2 -> "Rhythm"
      [] byte = 3 -> "Bass"
      [] byte = 4 -> "Vocals"
      [] byte = 5 -> "Combo"
      [] OTHER -> ""

\* One entry of a song manifest: eight bytes.
ParseEntry(bytes) ==
    [key |-> KeyText(bytes[1]),
     Attributes |->
        [SongKey |-> SongKeyText(bytes[2]),
         ArrangementName |-> ArrangementText(bytes[3]),
         ArrangementProperties |->
            [represent |-> bytes[4], bonusArr |-> bytes[5],
             pathLead |-> bytes[6], pathRhythm |-> bytes[7],
             pathBass |-> bytes[8]]]]

\* JSON.parse(buffer.toString()).  JSON belongs to the runtime; the model
\* puts a fixed-width text in its place: '{', entries of eight bytes, '}'.
\* Any other text is a syntax error, as for JSON.  Entries keeps the
\* entries in the order of Object.keys.
JSONparse(text) ==
    IF /\ Len(text) >= 2
       /\ text[1] = 123
       /\ text[Len(text)] = 125
       /\ (Len(text) - 2) % 8 = 0
    THEN [ok |-> TRUE,
          Entries |-> [e \in 1..((Len(text) - 2) \div 8) |->
                         ParseEntry(SubSeq(text, 8 * e - 6, 8 * e + 1))]]
    ELSE SyntaxError

\* The label built from the arrangement properties, with the instrument
\* chosen by pathBass before pathRhythm before pathLead.
LabelBassFirst(properties) ==
    (IF properties.represent = 0
     THEN (IF properties.bonusArr = 1 THEN "Bonus " ELSE "Alternate ")
     ELSE "")
    \o (IF properties.pathBass = 1 THEN "Bass"
        ELSE IF properties.pathRhythm = 1 THEN "Rhythm"
        ELSE IF properties.pathLead = 1 THEN "Lead"
        ELSE "")

\* The label built from the arrangement properties.
Label(properties) ==
    (IF properties.represent = 0
     THEN (IF properties.bonusArr = 1 THEN "Bonus " ELSE "Alternate ")
     ELSE "")
    \o (IF properties.pathLead = 1 THEN "Lead"
        ELSE IF properties.pathRhythm = 1 THEN "Rhythm"
        ELSE IF properties.pathBass = 1 THEN "Bass"
        ELSE "")

NoPathName == [key |-> "", name |-> "", songKey |-> ""]

\* getPathName on the parsed manifest: a manifest without entries has no
\* first key, and reading the entry's Attributes throws a TypeError.
PathNameOf(obj) ==
    IF ~obj.ok THEN [err |-> "SyntaxError", pathName |-> NoPathName]
    ELSE IF Len(obj.Entries) = 0
    THEN [err |-> "TypeError", pathName |-> NoPathName]
    ELSE LET entry == obj.Entries[1]
             attributes == entry.Attributes
         IN  IF attributes.ArrangementName = "Vocals"
             THEN [err |-> "vocals", pathName |-> NoPathName]
             ELSE [err |-> NoError,
                   pathName |->
                      [key |-> entry.key,
                       name |-> Label(attributes.ArrangementProperties),
                       songKey |-> attributes.SongKey]]

getPathName(buf) == PathNameOf(JSONparse(buf))

---------------------------------------------------------------------------
(* PSARC.addDuplicatePathNameNumbers                                       *)

\* [...new Set(values)]: the distinct values in the order they first occur.
RECURSIVE UniqueFrom(_, _, _)
UniqueFrom(values, i, seen) ==
    IF i > Len(values) THEN seen
    ELSE UniqueFrom(values, i + 1,
             IF \E j \in 1..Len(seen) : seen[j] = values[i]
             THEN seen ELSE Append(seen, values[i]))

Unique(values) == UniqueFrom(values, 1, <<>>)

PositionsOf(list) == [i \in 1..Len(list) |-> i]

\* The filter taking the records of every song.
AllSongsPathNames(list, songKey) == PositionsOf(list)

\* pathNames.filter(x => x.songKey === songKey).  The filter returns the
\* records themselves, which the numbering below changes in place: the model
\* keeps their positions in the list.
SongPathNames(list, songKey) ==
    SelectSeq(PositionsOf(list), LAMBDA i : list[i].songKey = songKey)

\* for (i ...) names[i].name += ` ${i + 1}`
RECURSIVE NumberNames(_, _, _)
NumberNames(list, names, i) ==
    IF i >= Len(names) THEN list
    ELSE NumberNames(
             [list EXCEPT ![At(names, i)].name = @ \o " " \o ToString(i + 1)],
             names, i + 1)

\* The loop over the distinct names of one song.  The records are filtered
\* by the name they have when the loop reaches that name.
RECURSIVE ForPathNames(_, _, _, _)
ForPathNames(list, songPathNames, uniquePathNames, j) ==
    IF j > Len(uniquePathNames) THEN list
    ELSE LET names == SelectSeq(songPathNames,
                          LAMBDA i : list[i].name = uniquePathNames[j])
         IN  ForPathNames(
                 IF Len(names) <= 1 THEN list ELSE NumberNames(list, names, 0),
                 songPathNames, uniquePathNames, j + 1)

RECURSIVE ForSongKeys(_, _, _)
ForSongKeys(list, uniqueSongKeys, s) ==
    IF s > Len(uniqueSongKeys) THEN list
    ELSE LET songPathNames == SongPathNames(list, uniqueSongKeys[s])
             uniquePathNames ==
                 Unique([k \in 1..Len(songPathNames) |->
                           list[songPathNames[k]].name])
         IN  ForSongKeys(ForPathNames(list, songPathNames, uniquePathNames, 1),
                         uniqueSongKeys, s + 1)

addDuplicatePathNameNumbers(list) ==
    ForSongKeys(list, Unique([i \in 1..Len(list) |-> list[i].songKey]), 1)

---------------------------------------------------------------------------
(* PSARC.getPathNames                                                      *)

\* A catch clause that swallows whatever getPathName throws.
RethrownNever(error) == FALSE

\* catch (error) { if (error !== 'vocals') throw error }
Rethrown(error) == error # "vocals"

\* The loop over the indexes.  readBlock is called outside the try block:
\* what it throws is not caught.
RECURSIVE GatherPathNames(_, _, _, _, _, _)
GatherPathNames(buf, sizes, descriptors, indexes, i, gathered) ==
    IF i > Len(indexes) THEN [err |-> NoError, pathNames |-> gathered]
    ELSE LET block == readBlock(buf, sizes, descriptors, indexes[i]) IN
    IF block.err # NoError THEN [err |-> block.err, pathNames |-> <<>>]
    ELSE LET p == getPathName(block.data) IN
    IF p.err = NoError
    THEN GatherPathNames(buf, sizes, descriptors, indexes, i + 1,
                         Append(gathered, p.pathName))
    ELSE IF Rethrown(p.err) THEN [err |-> p.err, pathNames |-> <<>>]
    ELSE GatherPathNames(buf, sizes, descriptors, indexes, i + 1, gathered)

getPathNames(buf, sizes, descriptors, listing) ==
    LET indexes == getPathManifestIndexes(listing)
        g == GatherPathNames(buf, sizes, descriptors, indexes, 1, <<>>)
    IN  [indexes |-> indexes, err |-> g.err,
         pathNames |-> IF g.err = NoError
                       THEN addDuplicatePathNameNumbers(g.pathNames)
                       ELSE <<>>]

---------------------------------------------------------------------------
(* The constructor's last step and the operations of an opened archive     *)

\* this.files = this.readBlock(this.blocks[0]).toString('utf-8').split('\n')
ReadListing ==
    /\ pc = "toc"
    /\ LET r == readBlock(buffer, blockSizes, blocks, 0) IN
        /\ err' = r.err
        /\ files' = IF r.err = NoError THEN Split(r.data) ELSE files
        /\ pc' = IF r.err = NoError THEN "open" ELSE "listingFailed"
    /\ UNCHANGED <<buffer, index, version, toc, blocks, blockSizes, scan,
                   ret, doc, input, pathNames, manifest>>

GetManifest ==
    /\ pc = "open"
    /\ LET n == getManifestIndex(files) IN
         ret' = [block |-> n] @@ readBlock(buffer, blockSizes, blocks, n)
    /\ pc' = "manifest"
    /\ UNCHANGED <<err, buffer, index, version, toc, blocks, blockSizes,
                   files, scan, doc, input, pathNames, manifest>>

GetFirstSongManifest ==
    /\ pc = "open"
    /\ LET n == getFirstSongManifestIndex(files) IN
         ret' = [block |-> n] @@ readBlock(buffer, blockSizes, blocks, n)
    /\ pc' = "firstSong"
    /\ UNCHANGED <<err, buffer, index, version, toc, blocks, blockSizes,
                   files, scan, doc, input, pathNames, manifest>>

GetPathNames ==
    /\ pc = "open"
    /\ ret' = getPathNames(buffer, blockSizes, blocks, files)
    /\ pc' = "pathNames"
    /\ UNCHANGED <<err, buffer, index, version, toc, blocks, blockSizes,
                   files, scan, doc, input, pathNames, manifest>>

---------------------------------------------------------------------------
(* addPathsToManifest                                                      *)

\* pathNames.find(x => x.key === key): the first record with the key, as a
\* list of at most one record.
FindPathName(list, key) ==
    LET found == SelectSeq(list, LAMBDA x : x.key = key)
    IN  IF Len(found) = 0 THEN <<>> ELSE <<found[1]>>

\* Attributes.PathName = name on an object: the attribute is added, or
\* replaced when the object has it.
SetPathName(attributes, name) ==
    [a \in DOMAIN attributes \cup {"PathName"} |->
       IF a = "PathName" THEN name ELSE attributes[a]]

\* The loop body without the test for undefined.
MergeEntryAlways(entry, list) ==
    LET pathName == FindPathName(list, entry.key)
    IN  [entry EXCEPT !.Attributes =
           SetPathName(@, IF Len(pathName) = 0 THEN "" ELSE pathName[1].name)]

\* The body of the loop over Object.keys(manifest.Entries).
MergeEntry(entry, list) ==
    LET pathName == FindPathName(list, entry.key)
    IN  IF Len(pathName) # 0
        THEN [entry EXCEPT !.Attributes = SetPathName(@, pathName[1].name)]
        ELSE entry

addPathsToManifest(m, list) ==
    [m EXCEPT !.Entries = [e \in 1..Len(m.Entries) |-> MergeEntry(m.Entries[e], list)]]

\* addPathsToManifest(manifestObj, pathNames) changes the manifest in place.
AddPathsToManifest ==
    /\ pc = "parsed"
    /\ input' = manifest
    /\ manifest' = addPathsToManifest(manifest, pathNames)
    /\ ret' = manifest'
    /\ pc' = "merged"
    /\ UNCHANGED <<err, buffer, index, version, toc, blocks, blockSizes,
                   files, scan, doc, pathNames>>

\* getPathName on the text of one song manifest.
GetPathName ==
    /\ pc = "text"
    /\ ret' = getPathName(doc)
    /\ pc' = "named"
    /\ UNCHANGED <<err, buffer, index, version, toc, blocks, blockSizes,
                   files, scan, doc, input, pathNames, manifest>>

\* addDuplicatePathNameNumbers(pathNames) changes the records in place.
AddDuplicatePathNameNumbers ==
    /\ pc = "gathered"
    /\ input' = pathNames
    /\ pathNames' = addDuplicatePathNameNumbers(pathNames)
    /\ pc' = "numbered"
    /\ UNCHANGED <<err, buffer, index, version, toc, blocks, blockSizes,
                   files, scan, ret, doc, manifest>>

---------------------------------------------------------------------------
(* Archive headers the header parser is run on.                            *)

\* Big-endian bytes of a number below 2^31.
U32(n) == <<n \div 16777216, (n \div 65536) % 256, (n \div 256) % 256, n % 256>>

HeaderBytes(magic, tag, tocLength, numEntries, blockSize, flags) ==
    magic \o <<0, 1, 0, 4>> \o tag \o U32(tocLength) \o U32(30)
          \o U32(numEntries) \o U32(blockSize) \o U32(flags)

\* Magics and tags: the right one and single-byte mutations of it.
Magics == {PSAR, <<80, 83, 65, 83>>, <<112, 83, 65, 82>>}

Tags == {ZLIB, <<122, 108, 105, 99>>, <<90, 108, 105, 98>>}

BlockSizeFields == {BLOCK_SIZE, 0, 65537, 16777216}

FlagFields == {4, 0, 5, 1028}

\* Bytes that follow the header in the file.
MaxTail == 2

HeaderFiles ==
    { SubSeq(h \o [i \in 1..MaxTail |-> 7], 1, n) :
        h \in { HeaderBytes(m, t, 62, 1, b, f) :
                  m \in Magics, t \in Tags,
                  b \in BlockSizeFields, f \in FlagFields },
        n \in 0..(32 + MaxTail) }

---------------------------------------------------------------------------
(* Archives the TOC parser is run on: a right header, then an enciphered   *)
(* TOC of some descriptors and chunk sizes, then the bytes that follow.    *)

\* CFB encipherment, the inverse of CfbDecrypt, of a whole number of segments.
RECURSIVE CfbEncrypt(_, _)
CfbEncrypt(plain, register) ==
    IF Len(plain) = 0 THEN <<>>
    ELSE LET pad == BlockCipher(register)
             seg == [j \in 1..16 |-> XorByte(plain[j], pad[j])]
         IN  seg \o CfbEncrypt(SubSeq(plain, 17, Len(plain)), seg)

\* The ciphertext of a TOC: as long as the TOC, as a stream cipher gives it.
EncryptTOC(plain) == SubSeq(CfbEncrypt(addPadding(plain), IV), 1, Len(plain))

\* A number below 2^31 as 5 big-endian bytes.
U40(n) == <<0>> \o U32(n)

DescriptorBytes(offset, size, fileOffset) ==
    Zeros(16) \o U32(offset) \o U40(size) \o U40(fileOffset)

MaxEntries == 2

MaxChunks == 2

\* n descriptors, the i-th starting at chunk i of the table.
RECURSIVE Descriptors(_, _)
Descriptors(n, size) ==
    IF n = 0 THEN <<>>
    ELSE Descriptors(n - 1, size) \o DescriptorBytes(n - 1, size, 100 + n)

\* Encoded chunk sizes: 0 stands for 65536.
ChunkFields == {<<0, 0>>, <<0, 5>>, <<1, 0>>, <<255, 255>>}

RECURSIVE Concat(_)
Concat(ss) == IF Len(ss) = 0 THEN <<>> ELSE Head(ss) \o Concat(Tail(ss))

ChunkTables ==
    UNION { { Concat(t) : t \in [1..k -> ChunkFields] } : k \in 0..MaxChunks }

\* A TOC of n descriptors may end in a single byte that is no chunk size.
PlainTOCs(n) ==
    { Descriptors(n, size) \o t \o odd :
        size \in {3, 70000}, t \in ChunkTables, odd \in {<<>>, <<9>>} }

\* The declared TOC length: the right one (header and ciphertext), and
\* lengths that are too short or too long for the TOC in the file.
TOCLengths(plain) == {32 + Len(plain), 31 + Len(plain), 35 + Len(plain), 0}

\* The declared entry count is at most the number of descriptors present:
\* bytes that are no descriptor would decode to fields beyond 2^31.
TOCFiles ==
    UNION { UNION { { HeaderBytes(PSAR, ZLIB, tl, ne, BLOCK_SIZE, 4)
                        \o EncryptTOC(plain) \o [i \in 1..MaxTail |-> 7] :
                      tl \in TOCLengths(plain), ne \in 0..n } :
                    plain \in PlainTOCs(n) } :
            n \in 0..MaxEntries }

Idle ==
    /\ err = NoError
    /\ index = 0
    /\ version = NoVersion
    /\ toc = EmptyTOC
    /\ blocks = <<>>
    /\ blockSizes = <<>>
    /\ files = <<>>
    /\ scan = <<>>
    /\ ret = <<>>
    /\ doc = <<>>
    /\ input = <<>>
    /\ pathNames = <<>>
    /\ manifest = <<>>

\* new PSARC(buffer): the header is read, then the TOC.
InitOpen ==
    /\ pc = "new"
    /\ buffer \in HeaderFiles \cup TOCFiles
    /\ Idle

NextOpen == ReadHeader \/ ReadTOC

SpecOpen == InitOpen /\ [][NextOpen]_vars

(* ---- readHeader: the claims ---- *)

\* The uint32 stored at a fixed offset of the file, when the file has it.
HasBytes(buf, off, n) == Len(buf) >= off + n

U32At(buf, off) ==
    ((buf[off + 1] * 256 + buf[off + 2]) * 256 + buf[off + 3]) * 256 + buf[off + 4]

MagicOK(buf) == HasBytes(buf, 0, 4) /\ SubSeq(buf, 1, 4) = PSAR

TagOK(buf) == HasBytes(buf, 8, 4) /\ SubSeq(buf, 9, 12) = ZLIB

BlockSizeOK(buf) == HasBytes(buf, 24, 4) /\ U32At(buf, 24) = BLOCK_SIZE

FlagsOK(buf) == HasBytes(buf, 28, 4) /\ U32At(buf, 28) = 4

HeaderRan == pc \in {"header", "headerFailed"}

\* The failure of the first wrong field, fields taken in header order.
FirstWrongField(buf) ==
    IF ~MagicOK(buf) THEN "magic does not equal PSAR"
    ELSE IF ~TagOK(buf) THEN "compression type does not equal zlib"
    ELSE IF ~BlockSizeOK(buf) THEN "block size does not equal 65536"
    ELSE IF ~FlagsOK(buf) THEN "archive flags do not equal 4"
    ELSE NoError

\* C2 as stated: readHeader succeeds exactly when the four fields are right,
\* a failure is that of the first wrong field, and success leaves the cursor
\* at 32.
C2_Original ==
    HeaderRan =>
        /\ err = FirstWrongField(buffer)
        /\ (pc = "header") = (err = NoError)
        /\ (pc = "header" => index = 32)

\* The first step of readHeader that fails: a check of a field, or a numeric
\* read that finds the file too short (the version needs 8 bytes, the TOC
\* geometry and the block size 28, the flags 32).
FirstFailingStep(buf) ==
    IF ~MagicOK(buf) THEN "magic does not equal PSAR"
    ELSE IF ~HasBytes(buf, 4, 4) THEN "eof"
    ELSE IF ~TagOK(buf) THEN "compression type does not equal zlib"
    ELSE IF ~HasBytes(buf, 12, 16) THEN "eof"
    ELSE IF ~BlockSizeOK(buf) THEN "block size does not equal 65536"
    ELSE IF ~HasBytes(buf, 28, 4) THEN "eof"
    ELSE IF ~FlagsOK(buf) THEN "archive flags do not equal 4"
    ELSE NoError

\* C2 (amended): readHeader succeeds exactly when the four fields are right;
\* a failure is that of the first failing step, where a file that ends
\* before a numeric field read ahead of the first wrong field's check fails
\* with 'eof' instead; success leaves the cursor at 32.
C2_HeaderValidation ==
    HeaderRan =>
        /\ err = FirstFailingStep(buffer)
        /\ (pc = "header") =
              (MagicOK(buffer) /\ TagOK(buffer) /\ BlockSizeOK(buffer)
                 /\ FlagsOK(buffer))
        /\ (pc = "header" => index = 32)

\* Several fields wrong in a full header: the first one is reported.
C2_Witness ==
    /\ pc = "headerFailed"
    /\ Len(buffer) >= 32
    /\ MagicOK(buffer) /\ ~TagOK(buffer) /\ ~BlockSizeOK(buffer) /\ ~FlagsOK(buffer)
    /\ err = "compression type does not equal zlib"


(* ---- readTOC: the claims ---- *)

TOCRan == pc \in {"toc", "tocFailed"}

\* The uint16 stored at a 0-based offset of the decrypted TOC.
U16At(buf, off) == buf[off + 1] * 256 + buf[off + 2]

\* C7: the chunk-size scan ends normally whenever the descriptors could be
\* read; it starts right after the numEntries 30-byte descriptors, stores
\* the consecutive uint16 values up to the last whole one, 65536 in place of
\* an encoded 0, so that every entry is in 1..65536 and there are
\* floor((L - 30 * numEntries) / 2) entries, L the decrypted TOC's length.
C7_ChunkSizeScan ==
    TOCRan =>
        LET L == Len(scan.plain)
            start == 30 * toc.numEntries
        IN  /\ (pc = "toc") = (start <= L)
            /\ pc = "toc" =>
                 /\ err = NoError
                 /\ scan.scanStart = start
                 /\ Len(blockSizes) = (L - start) \div 2
                 /\ scan.readerIndex = start + 2 * Len(blockSizes)
                 /\ \A k \in 1..Len(blockSizes) :
                      /\ blockSizes[k] \in 1..BLOCK_SIZE
                      /\ blockSizes[k] =
                           (IF U16At(scan.plain, start + 2 * (k - 1)) = 0
                            THEN BLOCK_SIZE
                            ELSE U16At(scan.plain, start + 2 * (k - 1)))

\* The TOC ends on a 2-byte boundary with an encoded 0, stored as 65536.
C7_Witness ==
    /\ pc = "toc"
    /\ Len(blockSizes) >= 2
    /\ (Len(scan.plain) - 30 * toc.numEntries) % 2 = 0
    /\ U16At(scan.plain, Len(scan.plain) - 2) = 0
    /\ blockSizes[Len(blockSizes)] = BLOCK_SIZE

\* C9: for an archive of at least one descriptor that holds the
\* toc.length - 32 bytes of ciphertext, the buffer handed to the parser has
\* exactly toc.length bytes and no byte that comes from the padding is
\* parsed.
C9_Original ==
    (TOCRan /\ toc.numEntries >= 1 /\ scan.encLen = toc.length - 32) =>
        /\ Len(scan.plain) = toc.length
        /\ scan.readerIndex <= scan.encLen

---------------------------------------------------------------------------
(* Opened archives the block reconstructor is run on: any descriptor over  *)
(* any chunk-size table whose entries are in 1..65536.                     *)

MaxTable == 3

MaxSize == 5

ChunkSizes == {1, 3, BLOCK_SIZE}

SizeTables == UNION { [1..k -> ChunkSizes] : k \in 0..MaxTable }

\* Archive bodies: literal bytes and sections in the stand-in code.
Bodies ==
    { <<>>,
      <<1, 2, 3, 4, 5, 6, 7>>,
      <<120, 2, 5, 1, 2, 3, 4>>,
      <<120, 0, 9, 120, 5, 1, 8>> }

BlockDescriptors ==
    [name : {<<>>}, offset : 0..(MaxTable + 1), size : 0..MaxSize,
     fileOffset : {0, 3, 6}]

InitBlock ==
    /\ pc = "open"
    /\ buffer \in Bodies
    /\ blockSizes \in SizeTables
    /\ blocks \in { <<d>> : d \in BlockDescriptors }
    /\ err = NoError /\ index = 32 /\ version = NoVersion /\ toc = EmptyTOC
    /\ files = <<>> /\ scan = <<>> /\ ret = <<>> /\ doc = <<>>
    /\ input = <<>> /\ pathNames = <<>> /\ manifest = <<>>

SpecBlock == InitBlock /\ [][ReadBlock]_vars

(* ---- readBlock: the claims ---- *)

\* C1: a buffer returned by readBlock(d) has exactly d.size bytes.
C1_Original ==
    (pc = "read" /\ ret.err = NoError) =>
        Len(ret.data) = At(blocks, ret.block).size

---------------------------------------------------------------------------
(* Whole archives: a right header, the enciphered TOC, the listing and the *)
(* files it lists, each stored as one chunk.                               *)

U16(n) == <<n \div 256, n % 256>>

RECURSIVE Join(_)
Join(paths) ==
    IF Len(paths) = 1 THEN paths[1]
    ELSE paths[1] \o <<10>> \o Join(Tail(paths))

RECURSIVE TotalLen(_, _)
TotalLen(ss, n) == IF n = 0 THEN 0 ELSE Len(ss[n]) + TotalLen(ss, n - 1)

\* 'manifests/a.hsan', 'manifests/songs_a.json' and 'audio/a.wem'.
HsanPath == <<109, 97, 110, 105, 102, 101, 115, 116, 115, 47, 97, 46, 104, 115, 97, 110>>

SongPath == <<109, 97, 110, 105, 102, 101, 115, 116, 115, 47, 115, 111, 110, 103, 115, 95, 97, 46, 106, 115, 111, 110>>

OtherPath == <<97, 117, 100, 105, 111, 47, 97, 46, 119, 101, 109>>

\* A song manifest of one entry.
SongDoc(key, song, arrangement, properties) ==
    <<123, key, song, arrangement>> \o properties \o <<125>>

\* Song manifests: Lead and Bonus Lead arrangements, a Vocals arrangement,
\* a manifest without entries and a text that is no manifest.
SongDocs ==
    { SongDoc(1, 1, 1, <<1, 0, 1, 0, 0>>),
      SongDoc(2, 1, 1, <<1, 0, 1, 0, 0>>),
      SongDoc(3, 1, 4, <<1, 0, 0, 0, 0>>),
      SongDoc(4, 2, 1, <<0, 1, 1, 0, 0>>),
      <<123, 125>>,
      <<123, 1>> }

\* A listed file: its path, its stored chunk and its logical size.  The
\* last one is stored deflated.
ListedFiles ==
    { [path |-> SongPath, stored |-> d, size |-> Len(d)] : d \in SongDocs }
      \cup { [path |-> HsanPath, stored |-> <<123, 125>>, size |-> 2],
             [path |-> OtherPath, stored |-> <<120, 4, 9>>, size |-> 4] }

MaxFiles == 2

\* The archive of the listed files fs; its TOC declares the descriptors of
\* the listing and of the first Len(fs) - missing files.
Archive(fs, missing) ==
    LET n == Len(fs)
        listing == Join([i \in 1..n |-> fs[i].path])
        stored == [i \in 1..n |-> fs[i].stored]
        numEntries == n + 1 - missing
        tocLength == 32 + 30 * numEntries + 2 * (n + 1)
        body == tocLength
        descriptors ==
            [i \in 1..numEntries |->
               IF i = 1 THEN DescriptorBytes(0, Len(listing), body)
               ELSE DescriptorBytes(i - 1, fs[i - 1].size,
                        body + Len(listing) + TotalLen(stored, i - 2))]
        table == <<Len(listing)>> \o [i \in 1..n |-> Len(stored[i])]
    IN  HeaderBytes(PSAR, ZLIB, tocLength, numEntries, BLOCK_SIZE, 4)
          \o EncryptTOC(Concat(descriptors)
                          \o Concat([i \in 1..(n + 1) |-> U16(table[i])]))
          \o listing \o Concat(stored)

Archives ==
    UNION { { Archive(fs, missing) :
                fs \in [1..n -> ListedFiles], missing \in {0, 1} } :
            n \in 1..MaxFiles }

InitArchive ==
    /\ pc = "new"
    /\ buffer \in Archives
    /\ Idle

NextArchive ==
    \/ ReadHeader
    \/ ReadTOC
    \/ ReadListing
    \/ GetManifest
    \/ GetFirstSongManifest
    \/ GetPathNames

SpecArchive == InitArchive /\ [][NextArchive]_vars

(* ---- the lookups and getPathNames: the claims ---- *)

\* The 0-based listing positions of the paths that match, in listing order.
HsanPositions == SelectSeq([i \in 1..Len(files) |-> i - 1],
                           LAMBDA i : MatchesHsan(At(files, i)))

SongPositions == SelectSeq([i \in 1..Len(files) |-> i - 1],
                           LAMBDA i : MatchesSong(At(files, i)))

\* C3: with no manifests/*.hsan path in the listing getManifest fails; it
\* does not return the contents of a logical file.
C3_Original ==
    (pc = "manifest" /\ Len(HsanPositions) = 0) => ret.err # NoError

\* C4: every lookup reads the descriptor at (matchPosition + 1): getManifest
\* and getFirstSongManifest for their first match, getPathManifestIndexes
\* for every song manifest, in listing order.
C4_Original ==
    /\ (pc = "manifest" /\ Len(HsanPositions) > 0) =>
          ret.block = HsanPositions[1] + 1
    /\ (pc = "firstSong" /\ Len(SongPositions) > 0) =>
          ret.block = SongPositions[1] + 1
    /\ pc = "pathNames" =>
          ret.indexes = [k \in 1..Len(SongPositions) |-> SongPositions[k] + 1]

\* What processing the song manifest listed at a position comes to: a
\* failure (the block cannot be read, its text is no manifest, the manifest
\* has no entry), a Vocals manifest, or a manifest that yields a record.
SongManifestKind(position) ==
    LET block == readBlock(buffer, blockSizes, blocks, position + 1)
        obj == JSONparse(block.data)
    IN  IF block.err # NoError \/ ~obj.ok \/ Len(obj.Entries) = 0
        THEN "fails"
        ELSE IF obj.Entries[1].Attributes.ArrangementName = "Vocals"
        THEN "vocals"
        ELSE "record"

FirstEntry(position) ==
    JSONparse(readBlock(buffer, blockSizes, blocks, position + 1).data).Entries[1]

RecordPositions ==
    SelectSeq(SongPositions, LAMBDA i : SongManifestKind(i) = "record")

\* C10: getPathNames returns one record for each song manifest that is not
\* a Vocals manifest, in listing order, and none for a Vocals manifest,
\* which does not end the loop; any other failure met while processing a
\* manifest is the outcome of getPathNames.
C10_PathNamesPerManifest ==
    pc = "pathNames" =>
        IF \E k \in 1..Len(SongPositions) :
              SongManifestKind(SongPositions[k]) = "fails"
        THEN ret.err # NoError
        ELSE /\ ret.err = NoError
             /\ Len(ret.pathNames) = Len(RecordPositions)
             /\ \A k \in 1..Len(RecordPositions) :
                  /\ ret.pathNames[k].key = FirstEntry(RecordPositions[k]).key
                  /\ ret.pathNames[k].songKey =
                       FirstEntry(RecordPositions[k]).Attributes.SongKey

\* A Vocals manifest listed before a manifest that yields a record.
C10_Witness ==
    /\ pc = "pathNames"
    /\ ret.err = NoError
    /\ Len(SongPositions) >= 2
    /\ SongManifestKind(SongPositions[1]) = "vocals"
    /\ SongManifestKind(SongPositions[2]) = "record"
    /\ Len(ret.pathNames) = 1

---------------------------------------------------------------------------
(* Song manifests the label is derived from.                               *)

MaxFlag == 2

Flags == 0..MaxFlag

\* Arrangement names: Lead, Vocals and Combo.
ManifestTexts ==
    { SongDoc(1, 1, a, <<r, b, l, y, s>>) :
        a \in {1, 4, 5}, r \in Flags, b \in Flags,
        l \in Flags, y \in Flags, s \in Flags }

InitPathName ==
    /\ pc = "text"
    /\ doc \in ManifestTexts
    /\ err = NoError /\ buffer = <<>> /\ index = 0 /\ version = NoVersion
    /\ toc = EmptyTOC /\ blocks = <<>> /\ blockSizes = <<>> /\ files = <<>>
    /\ scan = <<>> /\ ret = <<>> /\ input = <<>> /\ pathNames = <<>>
    /\ manifest = <<>>

SpecPathName == InitPathName /\ [][GetPathName]_vars

(* ---- getPathName: the claims ---- *)

\* The fields of the manifest text handed to getPathName.
DocArrangement == ArrangementText(doc[4])

DocRepresent == doc[5]

DocBonusArr == doc[6]

DocPathLead == doc[7]

DocPathRhythm == doc[8]

DocPathBass == doc[9]

ExpectedPrefix ==
    CASE DocRepresent = 0 /\ DocBonusArr = 1 -> "Bonus "
      [] DocRepresent = 0 /\ DocBonusArr # 1 -> "Alternate "
      [] DocRepresent # 0 -> ""

ExpectedInstrument ==
    CASE DocPathLead = 1 -> "Lead"
      [] DocPathLead # 1 /\ DocPathRhythm = 1 -> "Rhythm"
      [] DocPathLead # 1 /\ DocPathRhythm # 1 /\ DocPathBass = 1 -> "Bass"
      [] OTHER -> ""

\* C5: for an arrangement that is not Vocals the label is the prefix
\* ("Bonus ", "Alternate " or none) followed by the instrument (Lead before
\* Rhythm before Bass, or none), and no error is raised.
C5_Label ==
    (pc = "named" /\ DocArrangement # "Vocals") =>
        /\ ret.err = NoError
        /\ ret.pathName.name = ExpectedPrefix \o ExpectedInstrument

\* represent = 0, bonusArr = 1, pathLead = 1 with a second flag set.
C5_Witness ==
    /\ pc = "named"
    /\ DocArrangement # "Vocals"
    /\ DocRepresent = 0 /\ DocBonusArr = 1
    /\ DocPathLead = 1 /\ DocPathBass = 1
    /\ ret.pathName.name = "Bonus Lead"

---------------------------------------------------------------------------
(* Lists of records, as getPathName returns them, that are numbered.       *)

MaxPathNames == 4

GatheredRecords ==
    { getPathName(SongDoc(1, song, 1, properties)).pathName :
        song \in {1, 2},
        properties \in {<<1, 0, 1, 0, 0>>, <<1, 0, 0, 0, 1>>, <<0, 1, 1, 0, 0>>,
                        <<1, 0, 0, 0, 0>>} }

InitNumbers ==
    /\ pc = "gathered"
    /\ pathNames \in UNION { [1..n -> GatheredRecords] : n \in 0..MaxPathNames }
    /\ err = NoError /\ buffer = <<>> /\ index = 0 /\ version = NoVersion
    /\ toc = EmptyTOC /\ blocks = <<>> /\ blockSizes = <<>> /\ files = <<>>
    /\ scan = <<>> /\ ret = <<>> /\ doc = <<>> /\ input = <<>>
    /\ manifest = <<>>

SpecNumbers == InitNumbers /\ [][AddDuplicatePathNameNumbers]_vars

(* ---- addDuplicatePathNameNumbers: the claims ---- *)

\* The records of the list as it was that share song and name with record p.
Group(p) ==
    { q \in 1..Len(input) :
        input[q].songKey = input[p].songKey /\ input[q].name = input[p].name }

Rank(p) == Cardinality({q \in Group(p) : q <= p})

---------------------------------------------------------------------------
(* Master manifests and lists of records that are merged.                  *)

MaxKeys == 3

MaxMergeNames == 2

AttributeSets ==
    { [SongKey |-> "SONG1"], [SongKey |-> "SONG1", PathName |-> "Old"] }

\* The entries of a manifest: distinct keys, in the order of Object.keys.
EntryLists ==
    UNION { { [e \in 1..Len(keys) |->
                 [key |-> KeyText(keys[e]), Attributes |-> attrs[e]]] :
              attrs \in [1..Len(keys) -> AttributeSets] } :
            keys \in { SelectSeq([i \in 1..MaxKeys |-> i], LAMBDA i : i \in chosen) :
                         chosen \in SUBSET (1..MaxKeys) } }

\* Records for the keys of the manifest and for a key it does not have.
MergeRecords ==
    [key : {KeyText(i) : i \in 1..(MaxKeys + 1)}, name : {"Lead", "Bass 1"},
     songKey : {"SONG1"}]

InitMerge ==
    /\ pc = "parsed"
    /\ manifest \in { [Entries |-> entries] : entries \in EntryLists }
    /\ pathNames \in UNION { [1..n -> MergeRecords] : n \in 0..MaxMergeNames }
    /\ err = NoError /\ buffer = <<>> /\ index = 0 /\ version = NoVersion
    /\ toc = EmptyTOC /\ blocks = <<>> /\ blockSizes = <<>> /\ files = <<>>
    /\ scan = <<>> /\ ret = <<>> /\ doc = <<>> /\ input = <<>>

SpecMerge == InitMerge /\ [][AddPathsToManifest]_vars

(* ---- addPathsToManifest: the claims ---- *)

Matching(key) == { i \in 1..Len(pathNames) : pathNames[i].key = key }

\* C8: an entry whose key has a record gets that record's name (the first
\* such record's) as its PathName attribute, its other attributes kept; an
\* entry without a record is left as it was and so is given no PathName
\* attribute; no entry is added or removed.
C8_Merge ==
    pc = "merged" =>
        /\ Len(manifest.Entries) = Len(input.Entries)
        /\ \A e \in 1..Len(input.Entries) :
             LET before == input.Entries[e]
                 after == manifest.Entries[e]
             IN  /\ after.key = before.key
                 /\ IF Matching(before.key) = {}
                    THEN after.Attributes = before.Attributes
                    ELSE /\ DOMAIN after.Attributes =
                              DOMAIN before.Attributes \cup {"PathName"}
                         /\ \E i \in Matching(before.key) :
                              /\ \A j \in Matching(before.key) : i <= j
                              /\ after.Attributes.PathName = pathNames[i].name
                         /\ \A a \in DOMAIN before.Attributes \ {"PathName"} :
                              after.Attributes[a] = before.Attributes[a]

\* An entry with a record gets the name, an entry without one has no
\* PathName attribute before or after.
C8_Witness ==
    /\ pc = "merged"
    /\ \E e, f \in 1..Len(input.Entries) :
         /\ Matching(input.Entries[e].key) # {}
         /\ "PathName" \notin DOMAIN input.Entries[e].Attributes
         /\ manifest.Entries[e].Attributes.PathName = "Bass 1"
         /\ Matching(input.Entries[f].key) = {}
         /\ "PathName" \notin DOMAIN manifest.Entries[f].Attributes

=============================================================================
